---- MODULE Spec2Model ----
(***************************************************************************)
(* Model of aospy/automate.py: the CalcSuite specification resolver, the   *)
(* Calc factory, the execution harness _exec_calcs and the entry point     *)
(* submit_mult_calcs.                                                      *)
(*                                                                         *)
(* Python values are records [t, a, s, l]:                                 *)
(*   t = "str"  : a str, a its text (its characters are Chars[a])          *)
(*   t = "list" : a list of objects / strings, l its items                 *)
(*   t = "set"  : a set, s its members                                     *)
(*   t = "atom" : one object or one string, a its identity                 *)
(* Exceptions are strings; "" means no exception.                          *)
(***************************************************************************)
EXTENDS Integers, Sequences, FiniteSets, TLC

\* CalcSuite: the specification mapping, the order in which the set of
\* variables is iterated, the core mappings, the combined mappings, the
\* exception raised by the resolution and the position in it
VARIABLES specs_in, set_order, core_specs, all_specs, suite_err, suite_pc

\* _exec_calcs: the units, the options, the result list, the compute calls
\* made so far (in order), the units whose compute is in progress, the
\* pool's task queue, per-task results and completion order, the tasks whose
\* worker died, the exception that left the call, the logged warnings, the
\* position in the call; call_no and prev_results belong to the caller who
\* runs the same units a second time in the other dispatch mode
VARIABLES calcs, parallelize, compute_kwargs, results, invocations, running, queue,
          slots, completed, lost, exec_err, log, exec_pc, call_no, prev_results

\* submit_mult_calcs: the caller's exec_options object and the value it had
\* when the caller made it, the dict the function works on, the answer typed
\* at the prompt, whether this call prompted, the exception that left the
\* call, the position in the call and the number of the call
VARIABLES exec_options, opts_given, local_opts, answer, prompted, sub_err, sub_pc, sub_call

suite_vars == <<specs_in, set_order, core_specs, all_specs, suite_err, suite_pc>>

exec_vars == <<calcs, parallelize, compute_kwargs, results, invocations, running, queue,
               slots, completed, lost, exec_err, log, exec_pc, call_no, prev_results>>

sub_vars == <<exec_options, opts_given, local_opts, answer, prompted, sub_err, sub_pc, sub_call>>

vars == <<suite_vars, exec_vars, sub_vars>>

\* ---------------------------------------------------------------- bounds
\* longest explicit list a specification field is given
MaxLen == 2
\* most units handed to _exec_calcs
MaxCalcs == 3
\* worker processes of the pool
NumWorkers == 2

\* ------------------------------------------------------- python values
Str(x) == [t |-> "str", a |-> x, s |-> {}, l |-> <<>>]
List(items) == [t |-> "list", a |-> "", s |-> {}, l |-> items]
SetV(members) == [t |-> "set", a |-> "", s |-> members, l |-> <<>>]
Atom(x) == [t |-> "atom", a |-> x, s |-> {}, l |-> <<>>]

Range(f) == {f[i] : i \in DOMAIN f}

\* the characters of the strings a specification may hold
Chars == [all |-> <<"a", "l", "l">>,
          default |-> <<"d", "e", "f", "a", "u", "l", "t">>,
          xy |-> <<"x", "y">>,
          zz |-> <<"z", "z">>]

\* iter(value) for a str or a list: the items in order
IterItems(v) == IF v.t = "str" THEN Chars[v.a] ELSE v.l

\* set(value): the distinct items of a str or a list
PySet(v) == Range(IterItems(v))

\* the sequences over S of length at most n
SeqsUpTo(S, n) == UNION {[1..k -> S] : k \in 0..n}

\* the orders in which a set may be iterated
Orderings(S) == {q \in [1..Cardinality(S) -> S] : Range(q) = S}

\* concatenation of a sequence of sequences
RECURSIVE Flatten(_)
Flatten(ss) == IF ss = <<>> THEN <<>> ELSE Head(ss) \o Flatten(Tail(ss))

\* ----------------------------------------------------- module constants
OBJ_LIB_STR == "library"
PROJECTS_STR == "projects"
MODELS_STR == "models"
RUNS_STR == "runs"
REGIONS_STR == "regions"
VARIABLES_STR == "variables"
TAG_ATTR_MODIFIERS == [all |-> "", default |-> "default_"]

CORE_SPEC_NAMES == {OBJ_LIB_STR, PROJECTS_STR, MODELS_STR, RUNS_STR}

AUX_SPEC_NAMES == {VARIABLES_STR, REGIONS_STR, "date_ranges", "input_time_intervals",
                   "input_time_datatypes", "input_time_offsets",
                   "input_vertical_datatypes", "output_time_intervals",
                   "output_time_regional_reductions", "output_vertical_reductions"}

NAMES_SUITE_TO_CALC == [projects |-> "proj", models |-> "model", runs |-> "run",
                        variables |-> "var", regions |-> "region",
                        date_ranges |-> "date_range",
                        input_time_intervals |-> "intvl_in",
                        input_time_datatypes |-> "dtype_in_time",
                        input_time_offsets |-> "time_offset",
                        input_vertical_datatypes |-> "dtype_in_vert",
                        output_time_intervals |-> "intvl_out",
                        output_time_regional_reductions |-> "dtype_out_time",
                        output_vertical_reductions |-> "dtype_out_vert"]

\* ------------------------------------------------------ the object library
(* Two libraries of domain objects.  lib1 keeps its regions and variables  *)
(* in sub-namespaces, lib2 holds them as plain attributes.  ObjDict[o] is  *)
(* the part of o.__dict__ that holds single objects, CollAttrs[o] the      *)
(* attributes that hold collections of objects.                            *)
Libraries == {"lib1", "lib2"}
Projs == {"A", "B"}
Models == {"m1", "m2", "m3"}
Runs == {"r1", "r2", "r3"}
Regions == {"g1", "g2"}
Vars == {"v1", "v2"}

TypeOf == [lib1 |-> "Library", lib2 |-> "Library", nsR |-> "Namespace", nsV |-> "Namespace",
           A |-> "Proj", B |-> "Proj", m1 |-> "Model", m2 |-> "Model", m3 |-> "Model",
           r1 |-> "Run", r2 |-> "Run", r3 |-> "Run",
           g1 |-> "Region", g2 |-> "Region", v1 |-> "Var", v2 |-> "Var"]

ObjDict == [lib1 |-> [regions |-> "nsR", variables |-> "nsV", globe |-> "g1"],
            lib2 |-> [land |-> "g2", temp |-> "v1", proj_a |-> "A"],
            nsR |-> [globe |-> "g1", land |-> "g2", temp |-> "v1"],
            nsV |-> [temp |-> "v1", precip |-> "v2", land |-> "g2"]]

CollAttrs == [lib1 |-> [projects |-> <<"A", "B">>, default_projects |-> <<"A">>],
              lib2 |-> [projects |-> <<"A">>],
              A |-> [models |-> <<"m1", "m2">>, default_models |-> <<"m1">>],
              B |-> [models |-> <<"m3">>],
              m1 |-> [runs |-> <<"r1">>, default_runs |-> <<"r1">>],
              m2 |-> [runs |-> <<"r2", "r3">>, default_runs |-> <<"r2">>],
              m3 |-> [runs |-> <<>>]]

\* ------------------------------------------------------------- results
Ok(v) == [err |-> "", val |-> v]
Raise(e) == [err |-> e, val |-> <<>>]

\* getattr(obj, name) for a collection-valued attribute
GetAttr(obj, name) ==
    IF obj \in DOMAIN CollAttrs /\ name \in DOMAIN CollAttrs[obj]
    THEN Ok(CollAttrs[obj][name])
    ELSE Raise("AttributeError")

\* mutant: the modifier of the tag is dropped, 'default' reads the plain attribute
get_attr_by_tag_unmodified(obj, tag, attr_name) ==
    IF tag \notin DOMAIN TAG_ATTR_MODIFIERS
    THEN Raise("KeyError")
    ELSE GetAttr(obj, attr_name)

get_attr_by_tag(obj, tag, attr_name) ==
    IF tag \notin DOMAIN TAG_ATTR_MODIFIERS
    THEN Raise("KeyError")
    ELSE GetAttr(obj, TAG_ATTR_MODIFIERS[tag] \o attr_name)

get_all_objs_of_type(type_, parent) ==
    {o \in Range(ObjDict[parent]) : TypeOf[o] = type_}

\* getattr(obj, name, obj) for the optional sub-namespace of the library
SubNamespace(obj, name) ==
    IF name \in DOMAIN ObjDict[obj] THEN ObjDict[obj][name] ELSE obj

\* -------------------------------------------------------------- CalcSuite
\* mutant: a string that is no known tag reads the plain attribute
get_requested_spec_lenient(specs, obj, spec_name) ==
    LET requested == specs[spec_name]
    IN IF requested.t = "str"
       THEN IF requested.a \in DOMAIN TAG_ATTR_MODIFIERS
            THEN get_attr_by_tag(obj, requested.a, spec_name)
            ELSE GetAttr(obj, spec_name)
       ELSE Ok(requested.l)

get_requested_spec(specs, obj, spec_name) ==
    LET requested == specs[spec_name]
    IN IF requested.t = "str"
       THEN get_attr_by_tag(obj, requested.a, spec_name)
       ELSE Ok(requested.l)

\* the innermost loop of _permute_core_specs
RunTrees(project, model, runs) ==
    [i \in 1..Len(runs) |-> [proj |-> Atom(project), model |-> Atom(model),
                             run |-> Atom(runs[i])]]

\* the loop over the models of one project, from the k-th model on
RECURSIVE ModelTrees(_, _, _, _)
ModelTrees(specs, project, models, k) ==
    IF k > Len(models) THEN Ok(<<>>)
    ELSE LET runs == get_requested_spec(specs, models[k], RUNS_STR)
         IN IF runs.err # "" THEN Raise(runs.err)
            ELSE LET rest == ModelTrees(specs, project, models, k + 1)
                 IN IF rest.err # "" THEN Raise(rest.err)
                    ELSE Ok(RunTrees(project, models[k], runs.val) \o rest.val)

\* the loop over the projects, from the k-th project on
RECURSIVE ProjectTrees(_, _, _)
ProjectTrees(specs, projects, k) ==
    IF k > Len(projects) THEN Ok(<<>>)
    ELSE LET models == get_requested_spec(specs, projects[k], MODELS_STR)
         IN IF models.err # "" THEN Raise(models.err)
            ELSE LET here == ModelTrees(specs, projects[k], models.val, 1)
                 IN IF here.err # "" THEN Raise(here.err)
                    ELSE LET rest == ProjectTrees(specs, projects, k + 1)
                         IN IF rest.err # "" THEN Raise(rest.err)
                            ELSE Ok(here.val \o rest.val)

permute_core_specs(specs) ==
    LET projects == get_requested_spec(specs, specs[OBJ_LIB_STR].a, PROJECTS_STR)
    IN IF projects.err # "" THEN Raise(projects.err)
       ELSE ProjectTrees(specs, projects.val, 1)

\* mutant: the set of regions is returned bare, as _get_variables does
get_regions_unwrapped(specs) ==
    LET regions == IF specs[REGIONS_STR] = Str("all")
                   THEN get_all_objs_of_type("Region",
                            SubNamespace(specs[OBJ_LIB_STR].a, "regions"))
                   ELSE PySet(specs[REGIONS_STR])
    IN [i \in 1..Cardinality(regions) |->
           Atom((CHOOSE q \in Orderings(regions) : TRUE)[i])]

get_regions(specs) ==
    IF specs[REGIONS_STR] = Str("all")
    THEN <<SetV(get_all_objs_of_type("Region",
                    SubNamespace(specs[OBJ_LIB_STR].a, "regions")))>>
    ELSE <<SetV(PySet(specs[REGIONS_STR]))>>

get_variables(specs) ==
    IF specs[VARIABLES_STR] = Str("all")
    THEN get_all_objs_of_type("Var", SubNamespace(specs[OBJ_LIB_STR].a, "variables"))
    ELSE PySet(specs[VARIABLES_STR])

get_date_ranges(specs) ==
    IF specs["date_ranges"] = Str("default")
    THEN <<"default">>
    ELSE IterItems(specs["date_ranges"])

get_time_reg_reducts(specs) == <<specs["output_time_regional_reductions"]>>

\* a sequence of strings / objects as the values a product draws from
Atoms(items) == [i \in 1..Len(items) |-> Atom(items[i])]

(* _get_aux_specs: the auxiliary fields as the collections the product      *)
(* iterates; order is the order in which the set of variables is iterated.  *)
get_aux_specs(specs, order) ==
    [n \in DOMAIN specs \ CORE_SPEC_NAMES |->
        CASE n = REGIONS_STR -> get_regions(specs)
          [] n = VARIABLES_STR -> Atoms(order)
          [] n = "date_ranges" -> Atoms(get_date_ranges(specs))
          [] n = "output_time_regional_reductions" -> get_time_reg_reducts(specs)
          [] OTHER -> Atoms(IterItems(specs[n]))]

\* the auxiliary fields in the order the renamed mapping holds them
AuxOrder == <<"variables", "regions", "date_ranges", "input_time_intervals",
              "input_time_datatypes", "input_time_offsets", "input_vertical_datatypes",
              "output_time_intervals", "output_time_regional_reductions",
              "output_vertical_reductions">>

\* itertools.product over the fields k..Len(names), zipped with the keys
RECURSIVE Product(_, _, _)
Product(colls, names, k) ==
    IF k > Len(names) THEN << <<>> >>
    ELSE LET rest == Product(colls, names, k + 1)
             here == colls[names[k]]
         IN Flatten([i \in 1..Len(here) |->
                        [j \in 1..Len(rest) |-> <<here[i]>> \o rest[j]]])

permuted_dicts_of_specs(colls, names, keys) ==
    LET perms == Product(colls, names, 1)
    IN [p \in 1..Len(perms) |->
           [key \in Range(keys) |->
               perms[p][CHOOSE i \in 1..Len(keys) : keys[i] = key]]]

permute_aux_specs(specs, order) ==
    LET calc_aux_mapping == [n \in (DOMAIN NAMES_SUITE_TO_CALC \cup {OBJ_LIB_STR})
                                   \ CORE_SPEC_NAMES |-> NAMES_SUITE_TO_CALC[n]]
        names == SelectSeq(AuxOrder, LAMBDA n : n \in DOMAIN calc_aux_mapping)
        keys == [i \in 1..Len(names) |-> calc_aux_mapping[names[i]]]
    IN permuted_dicts_of_specs(get_aux_specs(specs, order), names, keys)

merge_dicts(d1, d2) ==
    [key \in DOMAIN d1 \cup DOMAIN d2 |-> IF key \in DOMAIN d2 THEN d2[key] ELSE d1[key]]

\* mutant: core and auxiliary mappings are paired off instead of nested
combine_core_aux_specs_zipped(core, specs, order) ==
    LET aux == permute_aux_specs(specs, order)
        n == IF Len(core) < Len(aux) THEN Len(core) ELSE Len(aux)
    IN [i \in 1..n |-> merge_dicts(core[i], aux[i])]

combine_core_aux_specs(core, specs, order) ==
    Flatten([c \in 1..Len(core) |->
               LET aux == permute_aux_specs(specs, order)
               IN [x \in 1..Len(aux) |-> merge_dicts(core[c], aux[x])]])

\* ------------------------------------------------ specification inputs
Tags == {"all", "default", "xy"}
VarTags == {"all", "xy", "zz"}

ObjSpecs(tags, objs, n) == {Str(tag) : tag \in tags} \cup {List(l) : l \in SeqsUpTo(objs, n)}

MkSpecs(lib, p, m, r, v, g, d, ii, red, ov) ==
    [library |-> Atom(lib), projects |-> p, models |-> m, runs |-> r,
     variables |-> v, regions |-> g, date_ranges |-> d,
     input_time_intervals |-> ii,
     input_time_datatypes |-> List(<<"ts">>),
     input_time_offsets |-> List(<<"none">>),
     input_vertical_datatypes |-> List(<<"sigma">>),
     output_time_intervals |-> List(<<"ann">>),
     output_time_regional_reductions |-> red,
     output_vertical_reductions |-> ov]

DateSpecs == {Str("default"), Str("all"), List(<<>>), List(<<"d1">>), List(<<"d1", "d2">>)}
IntvlSpecs == {List(<<"monthly">>), List(<<"monthly", "daily">>), Str("xy")}
ReductSpecs == {List(<<"av", "std">>), Str("xy")}
VertSpecs == {List(<<"vert_av">>), List(<<>>)}

\* every choice of the core fields, with a few auxiliary settings
CoreVaried ==
    {MkSpecs(lib, p, m, r, x[1], x[2], List(<<"d1">>), List(<<"monthly">>),
             List(<<"av", "std">>), List(<<"vert_av">>)) :
        lib \in Libraries, p \in ObjSpecs(Tags, Projs, MaxLen), m \in ObjSpecs(Tags, Models, MaxLen - 1),
        r \in ObjSpecs(Tags, Runs, MaxLen - 1),
        x \in {<<Str("all"), Str("all")>>, <<List(<<"v1">>), List(<<"g1", "g2">>)>>}}

\* every choice of the auxiliary fields, with a few core settings
AuxVaried ==
    {MkSpecs(lib, c[1], c[2], c[3], v, g, d, ii, red, ov) :
        lib \in Libraries,
        c \in {<<Str("all"), Str("all"), Str("all")>>,
               <<List(<<"A">>), List(<<"m2">>), Str("default")>>},
        v \in ObjSpecs(VarTags, Vars, MaxLen - 1), g \in ObjSpecs(Tags, Regions, MaxLen),
        d \in DateSpecs, ii \in IntvlSpecs, red \in ReductSpecs, ov \in VertSpecs}

SuiteSpecs == CoreVaried \cup AuxVaried

\* ------------------------------------------------------ computation units
(* A unit is an opaque Calc: what its compute does is fixed when the unit  *)
(* is made.  It returns a value or raises; KeyboardInterrupt and SystemExit *)
(* derive from BaseException only, every other exception from Exception.   *)
ExceptionClasses == {"ValueError", "RuntimeError"}
BaseOnlyClasses == {"KeyboardInterrupt"}
Values == {"resA", "resB"}
None == "None"

Returns(v) == [kind |-> "return", val |-> v, exc |-> ""]
Raises(e) == [kind |-> "raise", val |-> "", exc |-> e]

Outcomes == {Returns(v) : v \in Values} \cup {Raises("ValueError"), Raises("KeyboardInterrupt")}

\* the units nobody has run: no call of _exec_calcs in progress
ExecIdle ==
    /\ calcs = <<>>
    /\ parallelize = FALSE
    /\ compute_kwargs = {}
    /\ results = <<>>
    /\ invocations = <<>>
    /\ running = {}
    /\ queue = <<>>
    /\ slots = <<>>
    /\ completed = <<>>
    /\ lost = {}
    /\ exec_err = ""
    /\ log = <<>>
    /\ exec_pc = "idle"
    /\ call_no = 1
    /\ prev_results = <<>>

\* ------------------------------------------------------ execution options
\* exec_options is None or a dict; a dict is a function from its keys
NoOptions == [none |-> TRUE, d |-> <<>>]
Options(d) == [none |-> FALSE, d |-> d]
EmptyDict == <<>>

OptionKeys == {"prompt_verify", "parallelize", "write_to_tar"}

OptionDicts == {d \in UNION {[S -> BOOLEAN] : S \in SUBSET OptionKeys} :
                   "write_to_tar" \in DOMAIN d => d["write_to_tar"]}

\* dict.pop(key, default)[0]: the value
DictPopValue(d, key, default) == IF key \in DOMAIN d THEN d[key] ELSE default

\* dict.pop(key, default): the dict afterwards
DictPopRest(d, key) == [k \in DOMAIN d \ {key} |-> d[k]]

\* no call of submit_mult_calcs in progress
SubmitIdle ==
    /\ exec_options = NoOptions
    /\ opts_given = NoOptions
    /\ local_opts = EmptyDict
    /\ answer = <<>>
    /\ prompted = FALSE
    /\ sub_err = ""
    /\ sub_pc = "idle"
    /\ sub_call = 1

\* --------------------------------------------------- resolving a suite
InitSuite ==
    /\ specs_in \in SuiteSpecs
    /\ set_order = <<>>
    /\ core_specs = <<>>
    /\ all_specs = <<>>
    /\ suite_err = ""
    /\ suite_pc = "start"
    /\ ExecIdle
    /\ SubmitIdle

\* CalcSuite._permute_core_specs, as called first by _combine_core_aux_specs
PermuteCoreSpecs ==
    /\ suite_pc = "start"
    /\ LET core == permute_core_specs(specs_in)
       IN /\ core_specs' = core.val
          /\ suite_err' = core.err
          /\ suite_pc' = IF core.err # "" THEN "raised" ELSE "core"
    /\ UNCHANGED <<specs_in, set_order, all_specs>>
    /\ UNCHANGED <<exec_vars, sub_vars>>

\* the loops of CalcSuite._combine_core_aux_specs over the core mappings
CombineCoreAuxSpecs ==
    /\ suite_pc = "core"
    /\ \E order \in Orderings(get_variables(specs_in)) :
          /\ set_order' = order
          /\ all_specs' = combine_core_aux_specs(core_specs, specs_in, order)
    /\ suite_pc' = "done"
    /\ UNCHANGED <<specs_in, core_specs, suite_err>>
    /\ UNCHANGED <<exec_vars, sub_vars>>

NextSuite == PermuteCoreSpecs \/ CombineCoreAuxSpecs

SpecSuite == InitSuite /\ [][NextSuite]_vars

\* ------------------------------------------------------------ _exec_calcs
\* mutant: the exception is logged and raised again
compute_or_skip_on_error_reraise(calc, kwargs) ==
    IF calc.kind = "return"
    THEN [val |-> calc.val, err |-> "", warn |-> <<>>]
    ELSE [val |-> None, err |-> calc.exc, warn |-> <<calc>>]

(* _compute_or_skip_on_error(calc, compute_kwargs): the value returned, the *)
(* exception that leaves the function ("" if none) and the warning logged.  *)
compute_or_skip_on_error(calc, kwargs) ==
    IF calc.kind = "return"
    THEN [val |-> calc.val, err |-> "", warn |-> <<>>]
    ELSE IF calc.exc \in ExceptionClasses
         THEN [val |-> None, err |-> "", warn |-> <<calc>>]
         ELSE [val |-> None, err |-> calc.exc, warn |-> <<>>]

\* mutant: the results in the order the tasks finished (imap_unordered)
pool_map_unordered(task_results, completion_order) ==
    [k \in 1..Len(completion_order) |-> task_results[completion_order[k]]]

\* what pool.map hands back: the per-task results in submission order
pool_map(task_results, completion_order) ==
    [i \in 1..Len(task_results) |-> task_results[i]]

InitExec ==
    /\ specs_in = <<>>
    /\ set_order = <<>>
    /\ core_specs = <<>>
    /\ all_specs = <<>>
    /\ suite_err = ""
    /\ suite_pc = "idle"
    /\ calcs \in SeqsUpTo(Outcomes, MaxCalcs)
    /\ parallelize \in BOOLEAN
    /\ compute_kwargs \in {{}, {"write_to_tar"}}
    /\ results = <<>>
    /\ invocations = <<>>
    /\ running = {}
    /\ queue = <<>>
    /\ slots = <<>>
    /\ completed = <<>>
    /\ lost = {}
    /\ exec_err = ""
    /\ log = <<>>
    /\ exec_pc = "start"
    /\ call_no = 1
    /\ prev_results = <<>>
    /\ SubmitIdle

\* entry of _exec_calcs: the branch on parallelize
ExecCalcs ==
    /\ exec_pc = "start"
    /\ IF parallelize
       THEN /\ exec_pc' = "pool"
            /\ queue' = [i \in 1..Len(calcs) |-> i]
            /\ slots' = [i \in 1..Len(calcs) |-> None]
       ELSE /\ exec_pc' = "loop"
            /\ UNCHANGED <<queue, slots>>
    /\ UNCHANGED <<calcs, parallelize, compute_kwargs, results, invocations, running,
                   completed, lost, exec_err, log, call_no, prev_results>>
    /\ UNCHANGED <<suite_vars, sub_vars>>

\* sequential: the list comprehension calls compute on the next unit
SeqInvoke ==
    /\ exec_pc = "loop"
    /\ running = {}
    /\ Len(results) < Len(calcs)
    /\ running' = {Len(results) + 1}
    /\ invocations' = Append(invocations, Len(results) + 1)
    /\ UNCHANGED <<calcs, parallelize, compute_kwargs, results, queue, slots, completed,
                   lost, exec_err, log, exec_pc, call_no, prev_results>>
    /\ UNCHANGED <<suite_vars, sub_vars>>

\* mutant: a unit whose compute failed is left to be invoked again
SeqFinishRetry ==
    /\ exec_pc = "loop"
    /\ \E i \in running :
          LET r == compute_or_skip_on_error(calcs[i], compute_kwargs)
          IN /\ running' = {}
             /\ log' = log \o r.warn
             /\ IF r.err # ""
                THEN /\ exec_pc' = "raised"
                     /\ exec_err' = r.err
                     /\ UNCHANGED results
                ELSE /\ results' = IF r.warn # <<>> THEN results ELSE Append(results, r.val)
                     /\ UNCHANGED <<exec_pc, exec_err>>
    /\ UNCHANGED <<calcs, parallelize, compute_kwargs, invocations, queue, slots,
                   completed, lost, call_no, prev_results>>
    /\ UNCHANGED <<suite_vars, sub_vars>>

\* sequential: that compute returns or raises
SeqFinish ==
    /\ exec_pc = "loop"
    /\ \E i \in running :
          LET r == compute_or_skip_on_error(calcs[i], compute_kwargs)
          IN /\ running' = {}
             /\ log' = log \o r.warn
             /\ IF r.err # ""
                THEN /\ exec_pc' = "raised"
                     /\ exec_err' = r.err
                     /\ UNCHANGED results
                ELSE /\ results' = Append(results, r.val)
                     /\ UNCHANGED <<exec_pc, exec_err>>
    /\ UNCHANGED <<calcs, parallelize, compute_kwargs, invocations, queue, slots,
                   completed, lost, call_no, prev_results>>
    /\ UNCHANGED <<suite_vars, sub_vars>>

\* sequential: the comprehension is exhausted and the list is returned
SeqReturn ==
    /\ exec_pc = "loop"
    /\ running = {}
    /\ Len(results) = Len(calcs)
    /\ exec_pc' = "done"
    /\ UNCHANGED <<calcs, parallelize, compute_kwargs, results, invocations, running,
                   queue, slots, completed, lost, exec_err, log, call_no, prev_results>>
    /\ UNCHANGED <<suite_vars, sub_vars>>

\* parallel: an idle worker takes the next task off the queue
PoolTake ==
    /\ exec_pc = "pool"
    /\ queue # <<>>
    /\ Cardinality(running) < NumWorkers
    /\ running' = running \cup {Head(queue)}
    /\ queue' = Tail(queue)
    /\ invocations' = Append(invocations, Head(queue))
    /\ UNCHANGED <<calcs, parallelize, compute_kwargs, results, slots, completed, lost,
                   exec_err, log, exec_pc, call_no, prev_results>>
    /\ UNCHANGED <<suite_vars, sub_vars>>

\* parallel: some worker finishes its task and sends the result back
PoolFinish ==
    /\ exec_pc = "pool"
    /\ \E i \in running :
          LET r == compute_or_skip_on_error(calcs[i], compute_kwargs)
          IN /\ r.err = ""
             /\ running' = running \ {i}
             /\ slots' = [slots EXCEPT ![i] = r.val]
             /\ completed' = Append(completed, i)
             /\ log' = log \o r.warn
    /\ UNCHANGED <<calcs, parallelize, compute_kwargs, results, invocations, queue, lost,
                   exec_err, exec_pc, call_no, prev_results>>
    /\ UNCHANGED <<suite_vars, sub_vars>>

\* parallel: an exception outside Exception ends the worker process; the
\* pool replaces the worker, the task's result never arrives
PoolWorkerLost ==
    /\ exec_pc = "pool"
    /\ \E i \in running :
          /\ compute_or_skip_on_error(calcs[i], compute_kwargs).err # ""
          /\ running' = running \ {i}
          /\ lost' = lost \cup {i}
    /\ UNCHANGED <<calcs, parallelize, compute_kwargs, results, invocations, queue, slots,
                   completed, exec_err, log, exec_pc, call_no, prev_results>>
    /\ UNCHANGED <<suite_vars, sub_vars>>

\* parallel: every task has reported, map returns the list
PoolReturn ==
    /\ exec_pc = "pool"
    /\ Len(completed) = Len(calcs)
    /\ results' = pool_map(slots, completed)
    /\ exec_pc' = "done"
    /\ UNCHANGED <<calcs, parallelize, compute_kwargs, invocations, running, queue, slots,
                   completed, lost, exec_err, log, call_no, prev_results>>
    /\ UNCHANGED <<suite_vars, sub_vars>>

\* the caller runs the same units once more in the other dispatch mode
ExecAgain ==
    /\ exec_pc = "done"
    /\ call_no = 1
    /\ call_no' = 2
    /\ prev_results' = results
    /\ parallelize' = ~parallelize
    /\ results' = <<>>
    /\ invocations' = <<>>
    /\ queue' = <<>>
    /\ slots' = <<>>
    /\ completed' = <<>>
    /\ log' = <<>>
    /\ exec_pc' = "start"
    /\ UNCHANGED <<calcs, compute_kwargs, running, lost, exec_err>>
    /\ UNCHANGED <<suite_vars, sub_vars>>

ExecStep ==
    \/ ExecCalcs
    \/ SeqInvoke
    \/ SeqFinish
    \/ SeqReturn
    \/ PoolTake
    \/ PoolFinish
    \/ PoolWorkerLost
    \/ PoolReturn

NextExec == ExecStep \/ ExecAgain

SpecExec == InitExec /\ [][NextExec]_vars

\* ------------------------------------------------------ submit_mult_calcs
\* what the user may type at the prompt, as sequences of characters
Answers == {<<"y">>, <<"Y", "e", "s">>, <<"n">>, <<"N", "o">>, <<"o", "k">>, <<" ", "y">>, <<>>}

\* str.lower() of one character
Lower(c) == IF c = "Y" THEN "y" ELSE IF c = "N" THEN "n" ELSE c

\* _user_verify on the text read: the exception raised, "" if none
user_verify(text) ==
    IF Len(text) = 0 THEN "IndexError"
    ELSE IF Lower(text[1]) = "y" THEN "" ELSE "AospyException"

\* mutant: the units are made lazily, execution starts on the first one
create_calcs_lazy(units, mappings) == Len(units) >= 1 \/ Len(mappings) = 0

\* create_calcs hands the whole list over: every mapping has its unit
create_calcs_complete(units, mappings) == Len(units) = Len(mappings)

\* what a unit's constructor may do with a mapping: make a unit or raise
CtorError == "TypeError"
Constructions == {Returns("resA"), Raises("ValueError"), Raises("KeyboardInterrupt"),
                  Raises(CtorError)}

S_two == MkSpecs("lib2", Str("all"), List(<<"m1">>), Str("all"), List(<<"v1", "v2">>),
                 Str("all"), Str("default"), List(<<"monthly">>), List(<<"av">>),
                 List(<<"vert_av">>))

SubmitSpecs == {S_two,
                [S_two EXCEPT !.variables = List(<<"v1">>)],
                [S_two EXCEPT !.projects = List(<<>>)],
                [S_two EXCEPT !.models = Str("xy")],
                [S_two EXCEPT !.projects = Str("default")]}

InitSubmit ==
    /\ specs_in \in SubmitSpecs
    /\ set_order = <<>>
    /\ core_specs = <<>>
    /\ all_specs = <<>>
    /\ suite_err = ""
    /\ suite_pc = "idle"
    /\ ExecIdle
    /\ exec_options \in {NoOptions} \cup {Options(d) : d \in OptionDicts}
    /\ opts_given = exec_options
    /\ local_opts = EmptyDict
    /\ answer = <<>>
    /\ prompted = FALSE
    /\ sub_err = ""
    /\ sub_pc = "start"
    /\ sub_call = 1

\* entry of submit_mult_calcs: the default for None, then
\* exec_options.pop('prompt_verify', False) and the summary
SubmitMultCalcs ==
    /\ sub_pc = "start"
    /\ LET d == IF exec_options.none THEN EmptyDict ELSE exec_options.d
           verify == DictPopValue(d, "prompt_verify", FALSE)
           rest == DictPopRest(d, "prompt_verify")
       IN /\ local_opts' = rest
          /\ exec_options' = IF exec_options.none THEN exec_options ELSE Options(rest)
          /\ prompted' = verify
          /\ sub_pc' = IF verify THEN "verify" ELSE "suite"
    /\ UNCHANGED <<opts_given, answer, sub_err, sub_call>>
    /\ UNCHANGED <<suite_vars, exec_vars>>

\* _user_verify(): the user types an answer
UserVerify ==
    /\ sub_pc = "verify"
    /\ \E text \in Answers :
          /\ answer' = text
          /\ sub_err' = user_verify(text)
          /\ sub_pc' = IF user_verify(text) = "" THEN "suite" ELSE "raised"
    /\ UNCHANGED <<exec_options, opts_given, local_opts, prompted, sub_call>>
    /\ UNCHANGED <<suite_vars, exec_vars>>

\* CalcSuite(calc_suite_specs), then create_calcs starts the resolution
NewCalcSuite ==
    /\ sub_pc = "suite"
    /\ suite_pc' = "start"
    /\ sub_pc' = "create"
    /\ UNCHANGED <<specs_in, set_order, core_specs, all_specs, suite_err>>
    /\ UNCHANGED <<exec_options, opts_given, local_opts, answer, prompted, sub_err, sub_call>>
    /\ UNCHANGED exec_vars

\* the resolution raised: the exception leaves create_calcs and the call
ResolutionRaised ==
    /\ sub_pc = "create"
    /\ suite_pc = "raised"
    /\ sub_pc' = "raised"
    /\ sub_err' = suite_err
    /\ UNCHANGED <<exec_options, opts_given, local_opts, answer, prompted, sub_call>>
    /\ UNCHANGED <<suite_vars, exec_vars>>

\* create_calcs: Calc(CalcInterface(**sp)) for the next mapping
ConstructCalc ==
    /\ sub_pc = "create"
    /\ suite_pc = "done"
    /\ Len(calcs) < Len(all_specs)
    /\ \E c \in Constructions :
          IF c.exc = CtorError
          THEN /\ sub_pc' = "raised"
               /\ sub_err' = CtorError
               /\ UNCHANGED calcs
          ELSE /\ calcs' = Append(calcs, c)
               /\ UNCHANGED <<sub_pc, sub_err>>
    /\ UNCHANGED <<exec_options, opts_given, local_opts, answer, prompted, sub_call>>
    /\ UNCHANGED <<parallelize, compute_kwargs, results, invocations, running, queue,
                   slots, completed, lost, exec_err, log, exec_pc, call_no, prev_results>>
    /\ UNCHANGED suite_vars

\* _exec_calcs(calcs, **exec_options) is called with the list create_calcs made
CallExecCalcs ==
    /\ sub_pc = "create"
    /\ suite_pc = "done"
    /\ create_calcs_complete(calcs, all_specs)
    /\ parallelize' = DictPopValue(local_opts, "parallelize", FALSE)
    /\ compute_kwargs' = DOMAIN DictPopRest(local_opts, "parallelize")
    /\ exec_pc' = "start"
    /\ sub_pc' = "exec"
    /\ UNCHANGED <<calcs, results, invocations, running, queue, slots, completed, lost,
                   exec_err, log, call_no, prev_results>>
    /\ UNCHANGED <<exec_options, opts_given, local_opts, answer, prompted, sub_err, sub_call>>
    /\ UNCHANGED suite_vars

\* _exec_calcs returned or raised: so does submit_mult_calcs
SubmitReturn ==
    /\ sub_pc = "exec"
    /\ exec_pc \in {"done", "raised"}
    /\ sub_pc' = exec_pc
    /\ sub_err' = exec_err
    /\ UNCHANGED <<exec_options, opts_given, local_opts, answer, prompted, sub_call>>
    /\ UNCHANGED <<suite_vars, exec_vars>>

\* the caller submits again, passing the same exec_options object
SubmitAgain ==
    /\ sub_pc \in {"done", "raised"}
    /\ sub_call = 1
    /\ sub_call' = 2
    /\ sub_pc' = "start"
    /\ sub_err' = ""
    /\ prompted' = FALSE
    /\ answer' = <<>>
    /\ local_opts' = EmptyDict
    /\ UNCHANGED <<exec_options, opts_given, specs_in>>
    /\ set_order' = <<>>
    /\ core_specs' = <<>>
    /\ all_specs' = <<>>
    /\ suite_err' = ""
    /\ suite_pc' = "idle"
    /\ calcs' = <<>>
    /\ parallelize' = FALSE
    /\ compute_kwargs' = {}
    /\ results' = <<>>
    /\ invocations' = <<>>
    /\ running' = {}
    /\ queue' = <<>>
    /\ slots' = <<>>
    /\ completed' = <<>>
    /\ lost' = {}
    /\ exec_err' = ""
    /\ log' = <<>>
    /\ exec_pc' = "idle"
    /\ UNCHANGED <<call_no, prev_results>>

NextSubmit ==
    \/ SubmitMultCalcs
    \/ UserVerify
    \/ NewCalcSuite
    \/ PermuteCoreSpecs
    \/ CombineCoreAuxSpecs
    \/ ResolutionRaised
    \/ ConstructCalc
    \/ CallExecCalcs
    \/ ExecStep
    \/ SubmitReturn
    \/ SubmitAgain

SpecSubmit == InitSubmit /\ [][NextSubmit]_vars

\* ------------------------------------------------------------ properties
Count(seq, x) == Cardinality({i \in DOMAIN seq : seq[i] = x})

SuiteEnded == suite_pc \in {"done", "raised"}

CalcParamNames == {"proj", "model", "run", "var", "region", "date_range", "intvl_in",
                   "dtype_in_time", "time_offset", "dtype_in_vert", "intvl_out",
                   "dtype_out_time", "dtype_out_vert"}

\* n1 * ... * nk over the resolved auxiliary collections
RECURSIVE SizeProduct(_, _)
SizeProduct(colls, names) ==
    IF names = <<>> THEN 1 ELSE Len(colls[Head(names)]) * SizeProduct(colls, Tail(names))

ResolvedAux == get_aux_specs(specs_in, set_order)

\* C1: the combined output has m * n1 * ... * nk mappings, where m is the
\* number of core triples and n1..nk are the sizes of the resolved auxiliary
\* collections; each mapping holds exactly the thirteen renamed parameter
\* names and no 'library' key.
C1_Count ==
    suite_pc = "done" =>
        /\ Len(all_specs) = Len(core_specs) * SizeProduct(ResolvedAux, AuxOrder)
        /\ \A i \in DOMAIN all_specs :
              /\ DOMAIN all_specs[i] = CalcParamNames
              /\ OBJ_LIB_STR \notin DOMAIN all_specs[i]

C1_Witness ==
    /\ suite_pc = "done"
    /\ Len(core_specs) >= 3
    /\ Len(ResolvedAux["variables"]) = 2
    /\ Len(ResolvedAux["date_ranges"]) = 2
    /\ Len(ResolvedAux["input_time_intervals"]) = 2
    /\ Len(all_specs) = 24

\* the attribute a sentinel tag names
TagAttr(tag, name) == IF tag = "default" THEN "default_" \o name ELSE name

\* the collection an object holds under a name, empty if it has none
Held(obj, name) ==
    IF name \in DOMAIN CollAttrs[obj] THEN CollAttrs[obj][name] ELSE <<>>

\* the projects the traversal visits, in order
RequestedProjects ==
    IF specs_in.projects.t = "str"
    THEN Held(specs_in.library.a, TagAttr(specs_in.projects.a, "projects"))
    ELSE specs_in.projects.l

Triple(p, m, r) == [proj |-> Atom(p), model |-> Atom(m), run |-> Atom(r)]

\* C2 as stated: for tags and explicit collections alike, every triple is a
\* path of the hierarchy (the model is one of the project's models, the run
\* one of the model's runs) and no path is produced twice.
C2_Original ==
    suite_pc \in {"core", "done"} =>
        \A i \in DOMAIN core_specs :
            /\ core_specs[i].model.a \in Range(CollAttrs[core_specs[i].proj.a].models)
            /\ core_specs[i].run.a \in Range(CollAttrs[core_specs[i].model.a].runs)
            /\ Count(core_specs, core_specs[i]) = 1

\* C2 amended: when 'models' and 'runs' are both sentinel tags, every triple
\* is a path through the attributes the tags name, and each such path under
\* a requested project is produced once per occurrence of that project in
\* the requested projects.
C2_TagPaths ==
    (suite_pc \in {"core", "done"} /\ specs_in.models.t = "str" /\ specs_in.runs.t = "str") =>
        \A p \in Projs, m \in Models, r \in Runs :
            LET ms == Held(p, TagAttr(specs_in.models.a, "models"))
                rs == Held(m, TagAttr(specs_in.runs.a, "runs"))
            IN Count(core_specs, Triple(p, m, r)) =
                  IF Count(RequestedProjects, p) > 0 /\ m \in Range(ms) /\ r \in Range(rs)
                  THEN Count(RequestedProjects, p) ELSE 0

C2_Witness ==
    /\ suite_pc = "core"
    /\ specs_in.library.a = "lib2"
    /\ specs_in.projects = List(<<"A">>)
    /\ specs_in.models = Str("all")
    /\ specs_in.runs = Str("all")
    /\ core_specs = <<Triple("A", "m1", "r1"), Triple("A", "m2", "r2"), Triple("A", "m2", "r3")>>

\* the regions a specification asks for
AllRegionsOf == [lib1 |-> {"g1", "g2"}, lib2 |-> {"g2"}]

RequestedRegions ==
    IF specs_in.regions = Str("all") THEN AllRegionsOf[specs_in.library.a]
    ELSE Range(specs_in.regions.l)

RegionsAsked == specs_in.regions = Str("all") \/ specs_in.regions.t = "list"

\* the sizes of the auxiliary collections other than regions
OtherAuxSizes == SizeProduct(ResolvedAux, SelectSeq(AuxOrder, LAMBDA n : n # REGIONS_STR))

\* C7 as stated: the product ranges over the requested regions one at a
\* time, so each mapping's 'region' is one of the requested regions and r
\* requested regions multiply the number of mappings by r.
C7_Original ==
    (suite_pc = "done" /\ RegionsAsked) =>
        /\ \A i \in DOMAIN all_specs :
              all_specs[i].region.t = "atom" /\ all_specs[i].region.a \in RequestedRegions
        /\ Len(all_specs) = Len(core_specs) * Cardinality(RequestedRegions) * OtherAuxSizes

\* C7 amended: 'all' resolves to the Region-typed attributes of the library
\* (or of its 'regions' sub-namespace), an explicit list to its distinct
\* items; the resolved set is one single value of the product: each mapping's
\* 'region' is the whole set and the number of mappings does not depend on
\* how many regions are requested.
C7_RegionSet ==
    (suite_pc = "done" /\ RegionsAsked) =>
        /\ \A i \in DOMAIN all_specs : all_specs[i].region = SetV(RequestedRegions)
        /\ Len(all_specs) = Len(core_specs) * OtherAuxSizes

C7_Witness ==
    /\ suite_pc = "done"
    /\ specs_in.regions.t = "list"
    /\ Cardinality(RequestedRegions) = 2
    /\ Len(all_specs) > 0

C7_WitnessAll ==
    /\ suite_pc = "done"
    /\ specs_in.regions = Str("all")
    /\ specs_in.library.a = "lib1"
    /\ Len(all_specs) > 0

\* the core fields whose value is a string, and what the string is
UnknownTag(field) == specs_in[field].t = "str" /\ specs_in[field].a \notin {"all", "default"}
CoreFields == {PROJECTS_STR, MODELS_STR, RUNS_STR}

\* a string no sentinel of its field: 'all' is the sentinel of regions and
\* variables, 'default' of date_ranges, 'all' and 'default' of a core field
Unrecognised(field) ==
    /\ specs_in[field].t = "str"
    /\ CASE field \in CoreFields -> specs_in[field].a \notin {"all", "default"}
         [] field \in {REGIONS_STR, VARIABLES_STR} -> specs_in[field].a # "all"
         [] field = "date_ranges" -> specs_in[field].a # "default"
         [] OTHER -> TRUE

LookupErrorClasses == {"LookupError", "KeyError", "IndexError"}

\* C8 as stated: a string that is no sentinel of its field (core or
\* auxiliary) makes the resolution fail with a LookupError-class error and
\* no mappings; a failure of any kind is in the LookupError class and
\* leaves no mappings.
C8_Original ==
    SuiteEnded =>
        /\ (\E f \in CoreFields \cup AUX_SPEC_NAMES : Unrecognised(f)) =>
              (suite_pc = "raised" /\ suite_err \in LookupErrorClasses /\ all_specs = <<>>)
        /\ suite_pc = "raised" => (suite_err \in LookupErrorClasses /\ all_specs = <<>>)

\* C8 amended: only the core fields reject a tag, and only when the tag is
\* looked up.  An unrecognised 'projects' tag, or an unrecognised 'models'
\* tag with at least one project to look it up on, fails with KeyError; a
\* 'default' tag on an object without the default_ attribute fails with
\* AttributeError, which is no LookupError.  A failed resolution returns no
\* mapping at all.  Auxiliary fields never fail: a string other than the
\* field's sentinel is taken as the collection of its characters.
C8_CoreTagsOnly ==
    /\ suite_pc = "raised" =>
          /\ all_specs = <<>> /\ core_specs = <<>>
          /\ suite_err \in {"KeyError", "AttributeError"}
          /\ suite_err = "KeyError" => \E f \in CoreFields : UnknownTag(f)
          /\ suite_err = "AttributeError" => \E f \in CoreFields : specs_in[f] = Str("default")
    /\ (SuiteEnded /\ UnknownTag(PROJECTS_STR)) =>
          (suite_pc = "raised" /\ suite_err = "KeyError")
    /\ (SuiteEnded /\ ~UnknownTag(PROJECTS_STR) /\ UnknownTag(MODELS_STR)
          /\ (specs_in.projects.t = "str" =>
                 TagAttr(specs_in.projects.a, "projects") \in DOMAIN CollAttrs[specs_in.library.a])
          /\ RequestedProjects # <<>>) =>
          (suite_pc = "raised" /\ suite_err = "KeyError")
    /\ (SuiteEnded /\ specs_in.projects = Str("default")
          /\ "default_projects" \notin DOMAIN CollAttrs[specs_in.library.a]) =>
          (suite_pc = "raised" /\ suite_err = "AttributeError")
    /\ suite_pc = "done" =>
          \A i \in DOMAIN all_specs :
              /\ Unrecognised(REGIONS_STR) =>
                    all_specs[i].region = SetV(Range(Chars[specs_in.regions.a]))
              /\ Unrecognised(VARIABLES_STR) =>
                    all_specs[i].var.a \in Range(Chars[specs_in.variables.a])
              /\ Unrecognised("date_ranges") =>
                    all_specs[i].date_range.a \in Range(Chars[specs_in.date_ranges.a])

C8_Witness ==
    /\ suite_pc = "raised"
    /\ suite_err = "AttributeError"
    /\ specs_in.models = Str("default")
    /\ specs_in.projects = Str("all")
    /\ specs_in.library.a = "lib1"

C8_WitnessChars ==
    /\ suite_pc = "done"
    /\ Unrecognised(REGIONS_STR)
    /\ Unrecognised("date_ranges")
    /\ Len(all_specs) > 0

\* --------------------------------------------------- _exec_calcs claims
Identity(n) == [i \in 1..n |-> i]

\* the slot of each unit: None where its compute raises, else its value
ExpectedSlots == [i \in 1..Len(calcs) |->
                     IF calcs[i].kind = "raise" THEN None ELSE calcs[i].val]

ExecRuns == exec_pc \notin {"idle", "start"}

\* C3 as stated: whatever a unit raises, nothing reaches the caller, and
\* the returned list has one slot per unit in input order, None for the
\* raising units and the real value for the others, every unit invoked.
C3_Original ==
    /\ exec_pc # "raised"
    /\ lost = {}
    /\ exec_pc = "done" =>
          /\ results = ExpectedSlots
          /\ \A i \in 1..Len(calcs) : Count(invocations, i) = 1

\* C3 amended: the same for every exception that derives from Exception.
\* An exception outside Exception (KeyboardInterrupt, SystemExit) is not
\* caught: sequentially it propagates to the caller, in the pool it ends
\* the worker; the call ends with an exception only in that case.
C3_Isolation ==
    /\ exec_pc = "done" =>
          /\ results = ExpectedSlots
          /\ \A i \in 1..Len(calcs) : Count(invocations, i) = 1
    /\ exec_pc = "raised" =>
          /\ exec_err \in BaseOnlyClasses
          /\ \E i \in 1..Len(calcs) : calcs[i].exc = exec_err
    /\ \A i \in lost : calcs[i].exc \in BaseOnlyClasses

C3_Witness ==
    /\ exec_pc = "done"
    /\ Len(calcs) = 3
    /\ calcs[1] = Raises("ValueError")
    /\ calcs[2] = Returns("resA")
    /\ calcs[3] = Raises("ValueError")
    /\ results = <<None, "resA", None>>

\* C6: with no unit raising, the list returned with parallelize=True is the
\* list returned with parallelize=False for the same units, whatever the
\* order in which the pool's workers finish.
C6_SameResults ==
    (call_no = 2 /\ exec_pc = "done" /\ \A i \in 1..Len(calcs) : calcs[i].kind = "return") =>
        results = prev_results

C6_Witness ==
    /\ call_no = 2
    /\ exec_pc = "done"
    /\ parallelize
    /\ calcs = <<Returns("resA"), Returns("resB"), Returns("resA")>>
    /\ completed = <<2, 1, 3>>

\* C9 as stated: sequentially, every unit's compute is invoked exactly
\* once, in input order, whatever the units do.
C9_Original ==
    (~parallelize /\ exec_pc \in {"done", "raised"}) => invocations = Identity(Len(calcs))

\* C9 amended: sequentially the compute calls made so far are always the
\* first units of the input, each once and in input order, at most one in
\* progress, a failed unit never invoked again; they are all the units when
\* the call returns.  A unit raising outside Exception ends the call, and
\* the units after it are not invoked.
C9_InOrder ==
    (~parallelize /\ ExecRuns) =>
        /\ Len(invocations) <= Len(calcs)
        /\ invocations = Identity(Len(invocations))
        /\ Cardinality(running) <= 1
        /\ running # {} => (running = {Len(invocations)} /\ Len(results) = Len(invocations) - 1)
        /\ (running = {} /\ exec_pc = "loop") => Len(results) = Len(invocations)
        /\ exec_pc = "done" => invocations = Identity(Len(calcs))
        /\ exec_pc = "raised" => calcs[Len(invocations)].exc \in BaseOnlyClasses

C9_Witness ==
    /\ ~parallelize
    /\ exec_pc = "done"
    /\ Len(calcs) = 3
    /\ calcs[2] = Raises("ValueError")
    /\ invocations = <<1, 2, 3>>

\* ----------------------------------------------- submit_mult_calcs claims
ConfigErrors == {"KeyError", "AttributeError", CtorError}

\* C4: a configuration error (a tag or attribute the resolution rejects, a
\* constructor that raises) leaves submit_mult_calcs before any compute:
\* no compute is invoked until every mapping has its unit, a submission
\* that fails with a configuration error has invoked no compute, and a
\* failed resolution or construction is never followed by execution.
C4_FailFast ==
    /\ invocations # <<>> =>
          (suite_pc = "done" /\ Len(calcs) = Len(all_specs) /\ sub_pc \in {"exec", "done", "raised"})
    /\ (sub_pc = "raised" /\ sub_err \in ConfigErrors) =>
          (invocations = <<>> /\ exec_pc = "idle")
    /\ suite_pc = "raised" => (sub_pc \in {"create", "raised"} /\ exec_pc = "idle")
    /\ (sub_pc = "raised" /\ suite_pc = "raised") => sub_err = suite_err

C4_Witness ==
    /\ sub_pc = "raised"
    /\ sub_err = CtorError
    /\ Len(all_specs) = 2
    /\ Len(calcs) = 1
    /\ invocations = <<>>

C4_WitnessTag ==
    /\ sub_pc = "raised"
    /\ sub_err = "KeyError"
    /\ invocations = <<>>

NonAffirmative(text) == Len(text) = 0 \/ text[1] \notin {"y", "Y"}

\* C5 as stated: after a prompt, every non-affirmative answer (the empty
\* one included) raises AospyException, no unit constructed, none computed.
C5_Original ==
    (prompted /\ sub_pc # "verify" /\ NonAffirmative(answer)) =>
        /\ sub_pc = "raised"
        /\ sub_err = "AospyException"
        /\ calcs = <<>>
        /\ invocations = <<>>

====
